---------------------------- MODULE Spec2Model ----------------------------
(***************************************************************************)
(* Matchmaking and signaling relay of src/server.js.                       *)
(*                                                                         *)
(* The server keeps two process-wide structures: waitingQueue (an array of *)
(* sockets) and activePairs (a Map socketId -> partnerId).  Every socket   *)
(* event handler runs to completion on Node's single thread, so each       *)
(* handler is one atomic action.  The events a handler emits are recorded  *)
(* in `sent`, the handler's input in `lastEv` and the queue and pair table *)
(* it started from in `pre`.                                               *)
(***************************************************************************)
EXTENDS Integers, Sequences, FiniteSets, TLC

VARIABLES
    waitingQueue,   \* server.js:33  sequence of sockets (by id), oldest first
    activePairs,    \* server.js:34  Map: function whose DOMAIN is the key set
    sockets,        \* io.sockets.sockets: ids of the currently connected sockets
    closed,         \* ids whose connection has ended (an id is never reused)
    sent,           \* events emitted by the last handler, in emission order
    raised,         \* exception thrown by the last handler ("none" if none)
    lastEv,         \* the last inbound event: name, sending socket, payload
    pre,            \* waitingQueue and activePairs when the last handler began
    starts,         \* run of start-search events since the state was empty
    tally           \* per session, the `paired` and partner-disconnected events
                    \* received so far (kept only when tally.on)

vars == <<waitingQueue, activePairs, sockets, closed, sent, raised, lastEv, pre, starts, tally>>

---------------------------------------------------------------------------
(* Bounds *)

\* number of socket ids that may ever connect
MaxSessions == 3

\* longest queue handed to pairUsers when it is checked as a function
MaxQueue == 5

\* most pairs formed among the connected sessions while events are counted
MaxCount == 2

---------------------------------------------------------------------------
(* Values *)

SessionNames == <<"A", "B", "C", "D", "E", "F", "G", "H">>

Sessions == {SessionNames[i] : i \in 1..MaxSessions}

QueueSessions == {SessionNames[i] : i \in 1..MaxQueue}

\* JavaScript's undefined: Map.get on a missing key, a missing argument
Undefined == "undefined"

\* the fixed sender tag of relayed chat text (server.js:157)
Stranger == "Stranger"

\* Date.now() at the time of the relay (server.js:158)
Now == "now"

Fields == {"offer", "answer", "candidate", "message"}

Payloads == {"sdp1", "hi"}

\* The argument of a relay event: no argument at all, or an object with one
\* field carrying an opaque value (every other field reads as undefined).
NoData == [defined |-> FALSE, obj |-> [f \in Fields |-> Undefined]]

Object(field, value) == [f \in Fields |-> IF f = field THEN value ELSE Undefined]

Data == {NoData} \cup
        {[defined |-> TRUE, obj |-> Object(f, v)] : f \in Fields, v \in Payloads}

RelayNames == {"offer", "answer", "ice-candidate", "chat-message"}

EmptyMap == [k \in {} |-> Undefined]

Msg(to, name, arg, from, ts) ==
    [to |-> to, name |-> name, arg |-> arg, from |-> from, timestamp |-> ts]

Range(s) == {s[i] : i \in DOMAIN s}

---------------------------------------------------------------------------
(* Map operations used on activePairs *)

MapHas(m, k) == k \in DOMAIN m

MapGet(m, k) == IF k \in DOMAIN m THEN m[k] ELSE Undefined

MapSet(m, k, v) == [x \in DOMAIN m \cup {k} |-> IF x = k THEN v ELSE m[x]]

MapDelete(m, k) == [x \in DOMAIN m \ {k} |-> m[x]]

\* if (partnerId): an id is a non-empty string, so only undefined is falsy
Truthy(x) == x # Undefined

---------------------------------------------------------------------------
(* pairUsers, server.js:43-58 *)

RECURSIVE PairLoop(_, _, _)
PairLoop(queue, pairs, out) ==
    IF Len(queue) >= 2
    THEN LET user1 == Head(queue)
             user2 == Head(Tail(queue))
             rest  == Tail(Tail(queue))
             p     == MapSet(MapSet(pairs, user1, user2), user2, user1)
             o     == out \o << Msg(user1, "paired", user2, Undefined, Undefined),
                                Msg(user2, "paired", user1, Undefined, Undefined) >>
         IN  PairLoop(rest, p, o)
    ELSE [queue |-> queue, pairs |-> pairs, sent |-> out]

\* faulty variant: the second user is read but left in the queue
RECURSIVE PairLoopPeek(_, _, _)
PairLoopPeek(queue, pairs, out) ==
    IF Len(queue) >= 2
    THEN LET user1 == Head(queue)
             user2 == Head(Tail(queue))
             rest  == Tail(queue)
             p     == MapSet(MapSet(pairs, user1, user2), user2, user1)
             o     == out \o << Msg(user1, "paired", user2, Undefined, Undefined),
                                Msg(user2, "paired", user1, Undefined, Undefined) >>
         IN  PairLoopPeek(rest, p, o)
    ELSE [queue |-> queue, pairs |-> pairs, sent |-> out]

PairUsersPeek(queue, pairs) == PairLoopPeek(queue, pairs, <<>>)

\* faulty variant: `if` in place of `while`, one pair per call
PairUsersOnce(queue, pairs) ==
    IF Len(queue) >= 2
    THEN LET user1 == Head(queue)
             user2 == Head(Tail(queue))
         IN  [queue |-> Tail(Tail(queue)),
              pairs |-> MapSet(MapSet(pairs, user1, user2), user2, user1),
              sent  |-> << Msg(user1, "paired", user2, Undefined, Undefined),
                           Msg(user2, "paired", user1, Undefined, Undefined) >>]
    ELSE [queue |-> queue, pairs |-> pairs, sent |-> << >>]

\* faulty variant: only the second user of a pair is told
RECURSIVE PairLoopOneNotice(_, _, _)
PairLoopOneNotice(queue, pairs, out) ==
    IF Len(queue) >= 2
    THEN LET user1 == Head(queue)
             user2 == Head(Tail(queue))
             rest  == Tail(Tail(queue))
             p     == MapSet(MapSet(pairs, user1, user2), user2, user1)
             o     == out \o << Msg(user2, "paired", user1, Undefined, Undefined) >>
         IN  PairLoopOneNotice(rest, p, o)
    ELSE [queue |-> queue, pairs |-> pairs, sent |-> out]

PairUsersOneNotice(queue, pairs) == PairLoopOneNotice(queue, pairs, <<>>)

PairUsers(queue, pairs) == PairLoop(queue, pairs, <<>>)

---------------------------------------------------------------------------
(* removeUser, server.js:63-83 *)

\* faulty variant: the partner's entry is not deleted
RemoveUserKeepsPartner(queue, pairs, socks, socketId) ==
    LET q == SelectSeq(queue, LAMBDA user : user # socketId)
    IN  IF MapHas(pairs, socketId)
        THEN LET partnerId == MapGet(pairs, socketId)
             IN  [queue |-> q,
                  pairs |-> MapDelete(pairs, socketId),
                  sent  |-> IF partnerId \in socks
                            THEN << Msg(partnerId, "partner-disconnected",
                                        Undefined, Undefined, Undefined) >>
                            ELSE << >>]
        ELSE [queue |-> q, pairs |-> pairs, sent |-> << >>]

\* faulty variant: the caller's own entry is not deleted
RemoveUserKeepsSelf(queue, pairs, socks, socketId) ==
    LET q == SelectSeq(queue, LAMBDA user : user # socketId)
    IN  IF MapHas(pairs, socketId)
        THEN LET partnerId == MapGet(pairs, socketId)
             IN  [queue |-> q,
                  pairs |-> MapDelete(pairs, partnerId),
                  sent  |-> IF partnerId \in socks
                            THEN << Msg(partnerId, "partner-disconnected",
                                        Undefined, Undefined, Undefined) >>
                            ELSE << >>]
        ELSE [queue |-> q, pairs |-> pairs, sent |-> << >>]

\* faulty variant: the notification goes to the caller, not to the partner
RemoveUserNotifiesSelf(queue, pairs, socks, socketId) ==
    LET q == SelectSeq(queue, LAMBDA user : user # socketId)
    IN  IF MapHas(pairs, socketId)
        THEN LET partnerId == MapGet(pairs, socketId)
             IN  [queue |-> q,
                  pairs |-> MapDelete(MapDelete(pairs, socketId), partnerId),
                  sent  |-> IF socketId \in socks
                            THEN << Msg(socketId, "partner-disconnected",
                                        Undefined, Undefined, Undefined) >>
                            ELSE << >>]
        ELSE [queue |-> q, pairs |-> pairs, sent |-> << >>]

\* faulty variant: returns early when the partner's socket is not found
RemoveUserSkipsDelete(queue, pairs, socks, socketId) ==
    LET q == SelectSeq(queue, LAMBDA user : user # socketId)
    IN  IF MapHas(pairs, socketId)
        THEN LET partnerId == MapGet(pairs, socketId)
             IN  IF partnerId \in socks
                 THEN [queue |-> q,
                       pairs |-> MapDelete(MapDelete(pairs, socketId), partnerId),
                       sent  |-> << Msg(partnerId, "partner-disconnected",
                                        Undefined, Undefined, Undefined) >>]
                 ELSE [queue |-> q, pairs |-> pairs, sent |-> << >>]
        ELSE [queue |-> q, pairs |-> pairs, sent |-> << >>]

\* faulty variant: the head of the queue is dropped, whoever it is
RemoveUserShift(queue, pairs, socks, socketId) ==
    LET q == IF socketId \in Range(queue) THEN Tail(queue) ELSE queue
    IN  IF MapHas(pairs, socketId)
        THEN LET partnerId == MapGet(pairs, socketId)
             IN  [queue |-> q,
                  pairs |-> MapDelete(MapDelete(pairs, socketId), partnerId),
                  sent  |-> IF partnerId \in socks
                            THEN << Msg(partnerId, "partner-disconnected",
                                        Undefined, Undefined, Undefined) >>
                            ELSE << >>]
        ELSE [queue |-> q, pairs |-> pairs, sent |-> << >>]

\* faulty variant: the waiting queue is not filtered
RemoveUserNoFilter(queue, pairs, socks, socketId) ==
    IF MapHas(pairs, socketId)
    THEN LET partnerId == MapGet(pairs, socketId)
         IN  [queue |-> queue,
              pairs |-> MapDelete(MapDelete(pairs, socketId), partnerId),
              sent  |-> IF partnerId \in socks
                        THEN << Msg(partnerId, "partner-disconnected",
                                    Undefined, Undefined, Undefined) >>
                        ELSE << >>]
    ELSE [queue |-> queue, pairs |-> pairs, sent |-> << >>]

RemoveUser(queue, pairs, socks, socketId) ==
    LET q == SelectSeq(queue, LAMBDA user : user # socketId)
    IN  IF MapHas(pairs, socketId)
        THEN LET partnerId == MapGet(pairs, socketId)
             IN  [queue |-> q,
                  pairs |-> MapDelete(MapDelete(pairs, socketId), partnerId),
                  sent  |-> IF partnerId \in socks
                            THEN << Msg(partnerId, "partner-disconnected",
                                        Undefined, Undefined, Undefined) >>
                            ELSE << >>]
        ELSE [queue |-> q, pairs |-> pairs, sent |-> << >>]

---------------------------------------------------------------------------
(* The event handlers as functions of the state they start from.  Each     *)
(* returns the queue, the pair table, the events emitted and the exception *)
(* thrown.                                                                 *)

\* io.to(room).emit(...): delivered to the sockets in the room; the room
\* named after a socket id holds that socket while it is connected
RoomEmit(socks, room, name, arg, from, ts) ==
    IF room \in socks THEN << Msg(room, name, arg, from, ts) >> ELSE << >>

\* faulty variant: no cleanup before the enqueue
StartSearchNoRemove(queue, pairs, socks, id) ==
    LET q == Append(queue, id)
        s == << Msg(id, "searching", Undefined, Undefined, Undefined) >>
        p == PairUsers(q, pairs)
    IN  [queue |-> p.queue, pairs |-> p.pairs, sent |-> s \o p.sent, raised |-> "none"]

\* faulty variant: the enqueue is not followed by pairUsers
StartSearchNoPair(queue, pairs, socks, id) ==
    LET r == RemoveUser(queue, pairs, socks, id)
        q == Append(r.queue, id)
        s == << Msg(id, "searching", Undefined, Undefined, Undefined) >>
    IN  [queue |-> q, pairs |-> r.pairs, sent |-> r.sent \o s, raised |-> "none"]

\* faulty variant: `searching` is emitted after pairUsers
StartSearchSearchingLast(queue, pairs, socks, id) ==
    LET r == RemoveUser(queue, pairs, socks, id)
        q == Append(r.queue, id)
        s == << Msg(id, "searching", Undefined, Undefined, Undefined) >>
        p == PairUsers(q, r.pairs)
    IN  [queue |-> p.queue, pairs |-> p.pairs,
         sent |-> r.sent \o p.sent \o s, raised |-> "none"]

\* socket.on('start-search'), server.js:95-107
StartSearch(queue, pairs, socks, id) ==
    LET r == RemoveUser(queue, pairs, socks, id)
        q == Append(r.queue, id)
        s == << Msg(id, "searching", Undefined, Undefined, Undefined) >>
        p == PairUsers(q, r.pairs)
    IN  [queue |-> p.queue, pairs |-> p.pairs,
         sent |-> r.sent \o s \o p.sent, raised |-> "none"]

\* faulty variant: the payload is read before the partner is looked up
OfferEager(queue, pairs, socks, id, data) ==
    LET partnerId == MapGet(pairs, id)
    IN  IF ~data.defined
        THEN [queue |-> queue, pairs |-> pairs, sent |-> << >>, raised |-> "TypeError"]
        ELSE IF Truthy(partnerId)
             THEN [queue |-> queue, pairs |-> pairs,
                   sent |-> RoomEmit(socks, partnerId, "offer",
                                     data.obj["offer"], id, Undefined),
                   raised |-> "none"]
             ELSE [queue |-> queue, pairs |-> pairs, sent |-> << >>, raised |-> "none"]

\* socket.on('offer'), server.js:114-123
Offer(queue, pairs, socks, id, data) ==
    LET partnerId == MapGet(pairs, id)
    IN  IF Truthy(partnerId)
        THEN IF data.defined
             THEN [queue |-> queue, pairs |-> pairs,
                   sent |-> RoomEmit(socks, partnerId, "offer",
                                     data.obj["offer"], id, Undefined),
                   raised |-> "none"]
             ELSE [queue |-> queue, pairs |-> pairs, sent |-> << >>,
                   raised |-> "TypeError"]
        ELSE [queue |-> queue, pairs |-> pairs, sent |-> << >>, raised |-> "none"]

\* socket.on('answer'), server.js:126-135
Answer(queue, pairs, socks, id, data) ==
    LET partnerId == MapGet(pairs, id)
    IN  IF Truthy(partnerId)
        THEN IF data.defined
             THEN [queue |-> queue, pairs |-> pairs,
                   sent |-> RoomEmit(socks, partnerId, "answer",
                                     data.obj["answer"], id, Undefined),
                   raised |-> "none"]
             ELSE [queue |-> queue, pairs |-> pairs, sent |-> << >>,
                   raised |-> "TypeError"]
        ELSE [queue |-> queue, pairs |-> pairs, sent |-> << >>, raised |-> "none"]

\* socket.on('ice-candidate'), server.js:138-147
IceCandidate(queue, pairs, socks, id, data) ==
    LET partnerId == MapGet(pairs, id)
    IN  IF Truthy(partnerId)
        THEN IF data.defined
             THEN [queue |-> queue, pairs |-> pairs,
                   sent |-> RoomEmit(socks, partnerId, "ice-candidate",
                                     data.obj["candidate"], id, Undefined),
                   raised |-> "none"]
             ELSE [queue |-> queue, pairs |-> pairs, sent |-> << >>,
                   raised |-> "TypeError"]
        ELSE [queue |-> queue, pairs |-> pairs, sent |-> << >>, raised |-> "none"]

\* faulty variant: chat text tagged with the sender's id like the other relays
ChatMessageFromId(queue, pairs, socks, id, data) ==
    LET partnerId == MapGet(pairs, id)
    IN  IF Truthy(partnerId)
        THEN IF data.defined
             THEN [queue |-> queue, pairs |-> pairs,
                   sent |-> RoomEmit(socks, partnerId, "chat-message",
                                     data.obj["message"], id, Now),
                   raised |-> "none"]
             ELSE [queue |-> queue, pairs |-> pairs, sent |-> << >>,
                   raised |-> "TypeError"]
        ELSE [queue |-> queue, pairs |-> pairs, sent |-> << >>, raised |-> "none"]

\* socket.on('chat-message'), server.js:152-161
ChatMessage(queue, pairs, socks, id, data) ==
    LET partnerId == MapGet(pairs, id)
    IN  IF Truthy(partnerId)
        THEN IF data.defined
             THEN [queue |-> queue, pairs |-> pairs,
                   sent |-> RoomEmit(socks, partnerId, "chat-message",
                                     data.obj["message"], Stranger, Now),
                   raised |-> "none"]
             ELSE [queue |-> queue, pairs |-> pairs, sent |-> << >>,
                   raised |-> "TypeError"]
        ELSE [queue |-> queue, pairs |-> pairs, sent |-> << >>, raised |-> "none"]

\* faulty variant: the current pair is not torn down first
NextPartnerNoRemove(queue, pairs, socks, id) ==
    LET q == Append(queue, id)
        s == << Msg(id, "searching", Undefined, Undefined, Undefined) >>
        p == PairUsers(q, pairs)
    IN  [queue |-> p.queue, pairs |-> p.pairs, sent |-> s \o p.sent, raised |-> "none"]

\* faulty variant: the session is not put back in the queue
NextPartnerNoPush(queue, pairs, socks, id) ==
    LET r == RemoveUser(queue, pairs, socks, id)
        s == << Msg(id, "searching", Undefined, Undefined, Undefined) >>
        p == PairUsers(r.queue, r.pairs)
    IN  [queue |-> p.queue, pairs |-> p.pairs,
         sent |-> r.sent \o s \o p.sent, raised |-> "none"]

\* faulty variant: the enqueue is not followed by pairUsers
NextPartnerNoPair(queue, pairs, socks, id) ==
    LET r == RemoveUser(queue, pairs, socks, id)
        q == Append(r.queue, id)
        s == << Msg(id, "searching", Undefined, Undefined, Undefined) >>
    IN  [queue |-> q, pairs |-> r.pairs, sent |-> r.sent \o s, raised |-> "none"]

\* socket.on('next'), server.js:166-174
NextPartner(queue, pairs, socks, id) ==
    LET r == RemoveUser(queue, pairs, socks, id)
        q == Append(r.queue, id)
        s == << Msg(id, "searching", Undefined, Undefined, Undefined) >>
        p == PairUsers(q, r.pairs)
    IN  [queue |-> p.queue, pairs |-> p.pairs,
         sent |-> r.sent \o s \o p.sent, raised |-> "none"]

\* socket.on('stop-search'), server.js:176-179
StopSearch(queue, pairs, socks, id) ==
    LET r == RemoveUser(queue, pairs, socks, id)
    IN  [queue |-> r.queue, pairs |-> r.pairs, sent |-> r.sent, raised |-> "none"]

\* faulty variant: only the queue is cleaned on disconnect
DisconnectQueueOnly(queue, pairs, socks, id) ==
    [queue |-> SelectSeq(queue, LAMBDA user : user # id), pairs |-> pairs,
     sent |-> << >>, raised |-> "none"]

\* faulty variant: only the pair table is cleaned on disconnect
DisconnectPairsOnly(queue, pairs, socks, id) ==
    LET r == RemoveUser(queue, pairs, socks, id)
    IN  [queue |-> queue, pairs |-> r.pairs, sent |-> r.sent, raised |-> "none"]

\* socket.on('disconnect'), server.js:184-187
Disconnect(queue, pairs, socks, id) ==
    LET r == RemoveUser(queue, pairs, socks, id)
    IN  [queue |-> r.queue, pairs |-> r.pairs, sent |-> r.sent, raised |-> "none"]

---------------------------------------------------------------------------
(* Actions: one per inbound event *)

\* the run of start-search events of distinct sessions that began in the
\* empty state (observation only; not kept while events are counted)
StartsAfter(name, id) ==
    IF name = "start-search" /\ ~tally.on
    THEN IF waitingQueue = << >> /\ DOMAIN activePairs = {}
         THEN << id >>
         ELSE IF starts # << >> /\ id \notin Range(starts)
              THEN Append(starts, id)
              ELSE << >>
    ELSE << >>

\* a counter map read at a session not yet in it
CountOf(m, s) == IF s \in DOMAIN m THEN m[s] ELSE 0

\* the counters after a handler that emitted `out`; those of a session
\* that has disconnected are final and are dropped (observation only)
TallyAfter(name, id, out) ==
    LET got(ev, s) == Cardinality({i \in DOMAIN out : out[i].name = ev /\ out[i].to = s})
        gone == IF name = "disconnect" THEN {id} ELSE {}
        who == (DOMAIN tally.paired \cup {out[i].to : i \in DOMAIN out}) \ gone
    IN  [on |-> TRUE,
         paired |-> [s \in who |-> CountOf(tally.paired, s) + got("paired", s)],
         gone |-> [s \in who |-> CountOf(tally.gone, s) + got("partner-disconnected", s)]]

NoTally == [on |-> FALSE, paired |-> EmptyMap, gone |-> EmptyMap]

\* record a handler's run: its result becomes the state
Handle(name, id, data, res) ==
    /\ waitingQueue' = res.queue
    /\ activePairs' = res.pairs
    /\ sent' = res.sent
    /\ raised' = res.raised
    /\ lastEv' = [name |-> name, id |-> id, data |-> data]
    /\ pre' = [queue |-> waitingQueue, pairs |-> activePairs]
    /\ starts' = StartsAfter(name, id)
    /\ tally' = IF tally.on THEN TallyAfter(name, id, res.sent) ELSE tally

\* an uncaught exception ends the process
Running == raised = "none"

\* io.on('connection'), server.js:89-90
OnConnection(id) ==
    /\ Running
    /\ id \notin sockets \cup closed
    /\ sockets' = sockets \cup {id}
    /\ UNCHANGED <<waitingQueue, activePairs, closed, sent, raised, lastEv, pre, starts, tally>>

OnStartSearch(id) ==
    /\ Running
    /\ id \in sockets
    /\ Handle("start-search", id, NoData, StartSearch(waitingQueue, activePairs, sockets, id))
    /\ UNCHANGED <<sockets, closed>>

OnOffer(id, data) ==
    /\ Running
    /\ id \in sockets
    /\ Handle("offer", id, data, Offer(waitingQueue, activePairs, sockets, id, data))
    /\ UNCHANGED <<sockets, closed>>

OnAnswer(id, data) ==
    /\ Running
    /\ id \in sockets
    /\ Handle("answer", id, data, Answer(waitingQueue, activePairs, sockets, id, data))
    /\ UNCHANGED <<sockets, closed>>

OnIceCandidate(id, data) ==
    /\ Running
    /\ id \in sockets
    /\ Handle("ice-candidate", id, data,
              IceCandidate(waitingQueue, activePairs, sockets, id, data))
    /\ UNCHANGED <<sockets, closed>>

OnChatMessage(id, data) ==
    /\ Running
    /\ id \in sockets
    /\ Handle("chat-message", id, data,
              ChatMessage(waitingQueue, activePairs, sockets, id, data))
    /\ UNCHANGED <<sockets, closed>>

OnNext(id) ==
    /\ Running
    /\ id \in sockets
    /\ Handle("next", id, NoData, NextPartner(waitingQueue, activePairs, sockets, id))
    /\ UNCHANGED <<sockets, closed>>

OnStopSearch(id) ==
    /\ Running
    /\ id \in sockets
    /\ Handle("stop-search", id, NoData, StopSearch(waitingQueue, activePairs, sockets, id))
    /\ UNCHANGED <<sockets, closed>>

\* the transport drops the socket from io.sockets.sockets, then fires
\* 'disconnect'; no later event of that socket is dispatched
OnDisconnect(id) ==
    /\ Running
    /\ id \in sockets
    /\ sockets' = sockets \ {id}
    /\ closed' = closed \cup {id}
    /\ Handle("disconnect", id, NoData,
              Disconnect(waitingQueue, activePairs, sockets \ {id}, id))

NoEvent == [name |-> "init", id |-> Undefined, data |-> NoData]

Init ==
    /\ waitingQueue = << >>
    /\ activePairs = EmptyMap
    /\ sockets = {}
    /\ closed = {}
    /\ sent = << >>
    /\ raised = "none"
    /\ lastEv = NoEvent
    /\ pre = [queue |-> << >>, pairs |-> EmptyMap]
    /\ starts = << >>
    /\ tally = NoTally

Next ==
    \/ \E id \in Sessions : OnConnection(id)
    \/ \E id \in Sessions : OnStartSearch(id)
    \/ \E id \in Sessions, data \in Data : OnOffer(id, data)
    \/ \E id \in Sessions, data \in Data : OnAnswer(id, data)
    \/ \E id \in Sessions, data \in Data : OnIceCandidate(id, data)
    \/ \E id \in Sessions, data \in Data : OnChatMessage(id, data)
    \/ \E id \in Sessions : OnNext(id)
    \/ \E id \in Sessions : OnStopSearch(id)
    \/ \E id \in Sessions : OnDisconnect(id)

Spec == Init /\ [][Next]_vars

---------------------------------------------------------------------------
(* The events that form and dissolve pairs, with the notifications each    *)
(* session receives counted.  The sessions still connected have received  *)
(* at most 2 * MaxCount `paired` events between them (two per pair).  The  *)
(* relay events, which send neither `paired` nor partner-disconnected, are *)
(* left out.                                                               *)

RECURSIVE SumOf(_, _)
SumOf(m, S) ==
    IF S = {} THEN 0
    ELSE LET s == CHOOSE x \in S : TRUE IN m[s] + SumOf(m, S \ {s})

WithinCount == SumOf(tally.paired, DOMAIN tally.paired) <= 2 * MaxCount

InitCount ==
    /\ waitingQueue = << >>
    /\ activePairs = EmptyMap
    /\ sockets = {}
    /\ closed = {}
    /\ sent = << >>
    /\ raised = "none"
    /\ lastEv = NoEvent
    /\ pre = [queue |-> << >>, pairs |-> EmptyMap]
    /\ starts = << >>
    /\ tally = [on |-> TRUE, paired |-> EmptyMap, gone |-> EmptyMap]

NextCount ==
    \/ \E id \in Sessions : OnConnection(id)
    \/ \E id \in Sessions : OnStartSearch(id) /\ WithinCount'
    \/ \E id \in Sessions : OnNext(id) /\ WithinCount'
    \/ \E id \in Sessions : OnStopSearch(id)
    \/ \E id \in Sessions : OnDisconnect(id)

SpecCount == InitCount /\ [][NextCount]_vars

---------------------------------------------------------------------------
(* pairUsers as a function: applied once to a queue of distinct connected  *)
(* sessions, next to a pair table that may already hold a pair of others   *)

DistinctSeqs(S, n) ==
    {s \in UNION {[1..k -> S] : k \in 0..n} :
        \A i, j \in DOMAIN s : i # j => s[i] # s[j]}

PairOf(a, b) == MapSet(MapSet(EmptyMap, a, b), b, a)

InitPair ==
    /\ waitingQueue \in DistinctSeqs(QueueSessions, MaxQueue)
    /\ activePairs \in {EmptyMap} \cup
          {PairOf(a, b) : a, b \in {x \in QueueSessions \ Range(waitingQueue) : TRUE}}
    /\ \A k \in DOMAIN activePairs : activePairs[k] # k
    /\ sockets = QueueSessions
    /\ closed = {}
    /\ sent = << >>
    /\ raised = "none"
    /\ lastEv = NoEvent
    /\ pre = [queue |-> waitingQueue, pairs |-> activePairs]
    /\ starts = << >>
    /\ tally = NoTally

CallPairUsers ==
    /\ lastEv = NoEvent
    /\ Handle("pairUsers", Undefined, NoData,
              [queue |-> PairUsers(waitingQueue, activePairs).queue,
               pairs |-> PairUsers(waitingQueue, activePairs).pairs,
               sent |-> PairUsers(waitingQueue, activePairs).sent,
               raised |-> "none"])
    /\ UNCHANGED <<sockets, closed>>

NextPair == CallPairUsers

SpecPair == InitPair /\ [][NextPair]_vars

---------------------------------------------------------------------------
(* removeUser as a function: applied once to a queue of distinct sessions  *)
(* and a symmetric pair table of other sessions, with the socket registry  *)
(* io.sockets.sockets (server.js:72) either complete or missing one socket *)
(* that is not waiting                                                     *)

Matchings(S) ==
    {m \in UNION {[D -> S] : D \in SUBSET S} :
        \A k \in DOMAIN m : m[k] \in DOMAIN m /\ m[k] # k /\ m[m[k]] = k}

InitRemove ==
    /\ activePairs \in Matchings(QueueSessions)
    /\ waitingQueue \in DistinctSeqs(QueueSessions \ DOMAIN activePairs, MaxQueue)
    /\ sockets \in {QueueSessions} \cup
          {QueueSessions \ {x} : x \in QueueSessions \ Range(waitingQueue)}
    /\ closed = QueueSessions \ sockets
    /\ sent = << >>
    /\ raised = "none"
    /\ lastEv = NoEvent
    /\ pre = [queue |-> waitingQueue, pairs |-> activePairs]
    /\ starts = << >>
    /\ tally = NoTally

CallRemoveUser(socketId) ==
    /\ lastEv = NoEvent
    /\ Handle("removeUser", socketId, NoData,
              [queue |-> RemoveUser(waitingQueue, activePairs, sockets, socketId).queue,
               pairs |-> RemoveUser(waitingQueue, activePairs, sockets, socketId).pairs,
               sent |-> RemoveUser(waitingQueue, activePairs, sockets, socketId).sent,
               raised |-> "none"])
    /\ UNCHANGED <<sockets, closed>>

NextRemove == \E socketId \in QueueSessions : CallRemoveUser(socketId)

SpecRemove == InitRemove /\ [][NextRemove]_vars

---------------------------------------------------------------------------
(* Properties *)

SearchNames == {"start-search", "next"}

\* indices of the `paired` events the last handler sent to s
PairedTo(s) == {i \in DOMAIN sent : sent[i].name = "paired" /\ sent[i].to = s}

\* every id the current state and the last handler's record mention
Mentioned ==
    Range(waitingQueue) \cup Range(pre.queue) \cup DOMAIN activePairs
        \cup DOMAIN pre.pairs \cup {sent[i].to : i \in DOMAIN sent} \cup sockets

\* the queue the last start-search / next handler handed to pairUsers
QueueAtPairing ==
    Append(SelectSeq(pre.queue, LAMBDA user : user # lastEv.id), lastEv.id)

Searching(id) == Msg(id, "searching", Undefined, Undefined, Undefined)

Paired(to, partner) == Msg(to, "paired", partner, Undefined, Undefined)

PartnerDisconnected(to) ==
    Msg(to, "partner-disconnected", Undefined, Undefined, Undefined)

\* C1: after every handler the pair table is symmetric (a->b implies b->a)
\* and has an even number of entries; there is no lone or dangling entry.
C1_PairTableSymmetric ==
    /\ \A a \in DOMAIN activePairs :
          /\ activePairs[a] \in DOMAIN activePairs
          /\ activePairs[activePairs[a]] = a
    /\ Cardinality(DOMAIN activePairs) % 2 = 0

\* a `next` of a paired session dissolved one pair and formed another
C1_Witness ==
    /\ lastEv.name = "next"
    /\ lastEv.id \in DOMAIN pre.pairs
    /\ lastEv.id \in DOMAIN activePairs
    /\ activePairs # pre.pairs

\* C2: after every handler no session is both in the waiting queue and a key
\* of the pair table.
C2_WaitingNotPaired ==
    \A i \in DOMAIN waitingQueue : waitingQueue[i] \notin DOMAIN activePairs

\* a paired session sent start-search and is now waiting, no longer paired
C2_Witness ==
    /\ lastEv.name = "start-search"
    /\ lastEv.id \in DOMAIN pre.pairs
    /\ lastEv.id \in Range(waitingQueue)

\* C3: pairUsers never takes a session out of the queue twice without an
\* enqueue in between, and no waiting session is lost.  Per handler: a
\* session gets at most one `paired`; it gets one only if it was waiting or
\* has just enqueued itself by start-search / next; once paired it is out of
\* the queue; a session enters the queue only by its own start-search /
\* next; and a session leaves the queue only by being paired or by its own
\* handler's removeUser.
C3_DequeuedOncePerEnqueue ==
    \A s \in Mentioned :
        /\ Cardinality(PairedTo(s)) <= 1
        /\ PairedTo(s) # {} =>
              /\ \/ s \in Range(pre.queue)
                 \/ (lastEv.id = s /\ lastEv.name \in SearchNames)
              /\ s \notin Range(waitingQueue)
        /\ (s \in Range(waitingQueue) /\ s \notin Range(pre.queue)) =>
              (lastEv.id = s /\ lastEv.name \in SearchNames)
        /\ (s \in Range(pre.queue) /\ s \notin Range(waitingQueue)) =>
              (PairedTo(s) # {} \/ lastEv.id = s)
        /\ Cardinality({i \in DOMAIN waitingQueue : waitingQueue[i] = s}) <= 1

\* a session that was paired sent `next` and was paired a second time
C3_Witness ==
    /\ lastEv.name = "next"
    /\ lastEv.id \in DOMAIN pre.pairs
    /\ PairedTo(lastEv.id) # {}

\* C4: pairing is FIFO.  After start-search events of distinct sessions
\* starts[1], starts[2], ... from the empty state, the 1st is paired with the
\* 2nd, the 3rd with the 4th, ..., and an odd last one is the only waiting
\* session; the handler that completes a pair tells each member the other's
\* id.  In general the two oldest entries of the queue handed to pairUsers
\* are paired with each other.
C4_FifoPairing ==
    /\ starts # << >> =>
          LET n == Len(starts)
          IN  /\ lastEv.name = "start-search" /\ lastEv.id = starts[n]
              /\ waitingQueue = IF n % 2 = 1 THEN << starts[n] >> ELSE << >>
              /\ DOMAIN activePairs = {starts[i] : i \in 1..(2 * (n \div 2))}
              /\ \A k \in 1..(n \div 2) :
                    /\ activePairs[starts[2 * k - 1]] = starts[2 * k]
                    /\ activePairs[starts[2 * k]] = starts[2 * k - 1]
              /\ sent = IF n % 2 = 1
                        THEN << Searching(starts[n]) >>
                        ELSE << Searching(starts[n]),
                                Paired(starts[n - 1], starts[n]),
                                Paired(starts[n], starts[n - 1]) >>
    /\ (lastEv.name \in SearchNames /\ Len(QueueAtPairing) >= 2) =>
          LET q == QueueAtPairing
          IN  /\ MapGet(activePairs, q[1]) = q[2]
              /\ MapGet(activePairs, q[2]) = q[1]
              /\ \E i \in DOMAIN sent : sent[i] = Paired(q[1], q[2])
              /\ \E i \in DOMAIN sent : sent[i] = Paired(q[2], q[1])

\* A, B, C sent start-search in that order from the empty state
C4_Witness ==
    /\ Len(starts) = 3
    /\ activePairs = PairOf(starts[1], starts[2])
    /\ waitingQueue = << starts[3] >>

\* C5: pairUsers runs to a fixed point.  Called on a queue q of n distinct
\* sessions it pairs q[1] with q[2], q[3] with q[4], ..., forming n div 2
\* pairs, and leaves n mod 2 sessions waiting: none when n is even, the
\* last-arrived q[n] when n is odd.
C5_PairUsersFixedPoint ==
    lastEv.name = "pairUsers" =>
        LET q == pre.queue
            n == Len(q)
        IN  /\ Len(waitingQueue) = n % 2
            /\ n % 2 = 1 => waitingQueue = << q[n] >>
            /\ \A k \in 1..(n \div 2) :
                  /\ MapGet(activePairs, q[2 * k - 1]) = q[2 * k]
                  /\ MapGet(activePairs, q[2 * k]) = q[2 * k - 1]
            /\ DOMAIN activePairs =
                  DOMAIN pre.pairs \cup {q[i] : i \in 1..(2 * (n \div 2))}
            /\ \A a \in DOMAIN pre.pairs : activePairs[a] = pre.pairs[a]
            /\ Cardinality(DOMAIN activePairs) - Cardinality(DOMAIN pre.pairs)
                  = 2 * (n \div 2)
            /\ Len(sent) = 2 * (n \div 2)
            /\ \A k \in 1..(n \div 2) :
                  /\ sent[2 * k - 1] = Paired(q[2 * k - 1], q[2 * k])
                  /\ sent[2 * k] = Paired(q[2 * k], q[2 * k - 1])

\* pairUsers was called on five waiting sessions: two pairs, one left
C5_Witness ==
    /\ lastEv.name = "pairUsers"
    /\ Len(pre.queue) = 5
    /\ Len(waitingQueue) = 1
    /\ Cardinality(DOMAIN activePairs) - Cardinality(DOMAIN pre.pairs) = 4

\* the payload field each relay event carries (spec, external interfaces)
FieldOf(name) ==
    CASE name = "offer" -> "offer"
      [] name = "answer" -> "answer"
      [] name = "ice-candidate" -> "candidate"
      [] name = "chat-message" -> "message"

StateUnchanged == waitingQueue = pre.queue /\ activePairs = pre.pairs

\* C6: a relay event (offer, answer, ice-candidate, chat-message) that a
\* paired session S sends with a payload object produces exactly one event
\* of the same name, delivered to S's partner only, carrying the payload
\* field unchanged; negotiation events are tagged from = S, chat events
\* from = "Stranger", never S; queue and pair table are unchanged.
C6_RelayToPartnerOnly ==
    (/\ lastEv.name \in RelayNames
     /\ lastEv.data.defined
     /\ lastEv.id \in DOMAIN pre.pairs) =>
        LET S == lastEv.id
            P == pre.pairs[S]
            chat == lastEv.name = "chat-message"
        IN  /\ Len(sent) = 1
            /\ sent[1].to = P
            /\ sent[1].to # S
            /\ sent[1].name = lastEv.name
            /\ sent[1].arg = lastEv.data.obj[FieldOf(lastEv.name)]
            /\ sent[1].from = IF chat THEN Stranger ELSE S
            /\ chat => sent[1].from # S
            /\ raised = "none"
            /\ StateUnchanged

\* a paired session relayed chat text, which reached its partner
C6_Witness ==
    /\ lastEv.name = "chat-message"
    /\ lastEv.data.obj["message"] = "hi"
    /\ lastEv.id \in DOMAIN pre.pairs
    /\ Len(sent) = 1
    /\ sent[1].arg = "hi"

\* C7: a relay event of a session that is not paired delivers nothing,
\* raises nothing and changes neither queue nor pair table; a relayed event
\* only ever reaches the sender's partner of that moment.
C7_UnpairedRelayDropped ==
    /\ (lastEv.name \in RelayNames /\ lastEv.id \notin DOMAIN pre.pairs) =>
          /\ sent = << >>
          /\ raised = "none"
          /\ StateUnchanged
    /\ \A i \in DOMAIN sent :
          sent[i].name \in RelayNames =>
              /\ lastEv.name = sent[i].name
              /\ sent[i].to = MapGet(pre.pairs, lastEv.id)

\* an unpaired session sent a relay event without payload while another
\* session was connected, after some session had already left
C7_Witness ==
    /\ lastEv.name \in RelayNames
    /\ ~lastEv.data.defined
    /\ lastEv.id \notin DOMAIN pre.pairs
    /\ sockets \ {lastEv.id} # {}
    /\ closed # {}
    /\ sent = << >>

\* C8: when B, paired with A, disconnects, A receives exactly one
\* partner-disconnected (and nothing else is sent), neither A nor B keeps an
\* entry in the pair table, and neither is in the waiting queue.
C8_DisconnectDissolvesPair ==
    (lastEv.name = "disconnect" /\ lastEv.id \in DOMAIN pre.pairs) =>
        LET B == lastEv.id
            A == pre.pairs[B]
        IN  /\ sent = << PartnerDisconnected(A) >>
            /\ MapGet(activePairs, A) = Undefined
            /\ A \notin DOMAIN activePairs
            /\ B \notin DOMAIN activePairs
            /\ A \notin Range(waitingQueue)
            /\ B \notin Range(waitingQueue)
            /\ waitingQueue = pre.queue
            /\ A \in sockets

\* a paired session disconnected
C8_Witness ==
    /\ lastEv.name = "disconnect"
    /\ lastEv.id \in DOMAIN pre.pairs
    /\ Len(sent) = 1

\* C9: when A, paired with B, sends next, B receives partner-disconnected
\* and the A-B pair is removed; if nobody was waiting A is the only waiting
\* session afterwards; if C was waiting, A and C are paired with each other
\* by the end of the handler, each told the other's id, and the queue is
\* empty.
C9_NextRepairs ==
    (lastEv.name = "next" /\ lastEv.id \in DOMAIN pre.pairs) =>
        LET A == lastEv.id
            B == pre.pairs[A]
        IN  /\ sent[1] = PartnerDisconnected(B)
            /\ B \notin DOMAIN activePairs
            /\ MapGet(activePairs, A) # B
            /\ pre.queue = << >> =>
                  /\ waitingQueue = << A >>
                  /\ A \notin DOMAIN activePairs
                  /\ sent = << PartnerDisconnected(B), Searching(A) >>
            /\ pre.queue # << >> =>
                  LET C == Head(pre.queue)
                  IN  /\ MapGet(activePairs, A) = C
                      /\ MapGet(activePairs, C) = A
                      /\ waitingQueue = Tail(pre.queue)
                      /\ Len(pre.queue) = 1 => waitingQueue = << >>
                      /\ sent = << PartnerDisconnected(B), Searching(A),
                                   Paired(C, A), Paired(A, C) >>

\* A, paired with B, sent next while C was waiting
C9_Witness ==
    /\ lastEv.name = "next"
    /\ lastEv.id \in DOMAIN pre.pairs
    /\ Len(pre.queue) = 1
    /\ MapGet(activePairs, lastEv.id) = pre.queue[1]

\* C10: removeUser is idempotent.  In every reachable state and for every
\* id, a second removeUser(id) right after the first leaves the queue and
\* the pair table as the first left them and sends nothing.
C10_RemoveUserIdempotent ==
    \A id \in Mentioned \cup closed :
        LET r1 == RemoveUser(waitingQueue, activePairs, sockets, id)
            r2 == RemoveUser(r1.queue, r1.pairs, sockets, id)
        IN  /\ r2.queue = r1.queue
            /\ r2.pairs = r1.pairs
            /\ r2.sent = << >>

\* a state with a pair and a waiting session, where the first removeUser
\* of a paired id notifies its partner and that of the waiting id shortens
\* the queue
C10_Witness ==
    /\ waitingQueue # << >>
    /\ \E id \in DOMAIN activePairs :
          LET r1 == RemoveUser(waitingQueue, activePairs, sockets, id)
          IN  r1.sent # << >> /\ r1.pairs # activePairs
    /\ RemoveUser(waitingQueue, activePairs, sockets, Head(waitingQueue)).queue
          # waitingQueue

\* the pairs (a, b) the last handler formed, a the older waiting session
JustPaired ==
    {<<sent[i].to, sent[i].arg>> : i \in {j \in DOMAIN sent :
        /\ sent[j].name = "paired"
        /\ j + 1 \in DOMAIN sent
        /\ sent[j + 1] = Paired(sent[j].arg, sent[j].to)}}

\* C11: pair-table round trip.  Right after a and b are paired,
\* removeUser(a) notifies b (and nobody else) and deletes both entries, and
\* a following removeUser(b) finds no entry for b, changes nothing and
\* notifies no one.  The same holds with a and b exchanged.
C11_PairRemoveRoundTrip ==
    \A ab \in JustPaired :
        \A d \in {<<ab[1], ab[2]>>, <<ab[2], ab[1]>>} :
            LET a == d[1]
                b == d[2]
                r1 == RemoveUser(waitingQueue, activePairs, sockets, a)
                r2 == RemoveUser(r1.queue, r1.pairs, sockets, b)
            IN  /\ MapGet(activePairs, a) = b
                /\ r1.sent = << PartnerDisconnected(b) >>
                /\ a \notin DOMAIN r1.pairs
                /\ b \notin DOMAIN r1.pairs
                /\ r1.pairs = [k \in DOMAIN activePairs \ {a, b} |-> activePairs[k]]
                /\ MapGet(r1.pairs, b) = Undefined
                /\ r2.pairs = r1.pairs
                /\ r2.queue = r1.queue
                /\ r2.sent = << >>

\* a handler has just formed a pair
C11_Witness ==
    /\ JustPaired # {}
    /\ \E ab \in JustPaired : ab[2] = lastEv.id /\ MapGet(activePairs, ab[1]) = ab[2]

\* C12: when a start-search or next handler completes, its sender is in the
\* waiting queue or a key of the pair table, whatever it was before; when a
\* stop-search handler completes, its sender is in neither.
C12_SearcherNeverIdle ==
    /\ lastEv.name \in SearchNames =>
          \/ lastEv.id \in Range(waitingQueue)
          \/ lastEv.id \in DOMAIN activePairs
    /\ lastEv.name = "stop-search" =>
          /\ lastEv.id \notin Range(waitingQueue)
          /\ lastEv.id \notin DOMAIN activePairs

\* a paired session sent next with nobody waiting and is now waiting
C12_Witness ==
    /\ lastEv.name = "next"
    /\ lastEv.id \in DOMAIN pre.pairs
    /\ pre.queue = << >>
    /\ lastEv.id \in Range(waitingQueue)

\* C13: teardown is best-effort towards the partner.  When removeUser(id)
\* runs for a paired id whose partner is not in the socket registry, no
\* event is sent and nothing is raised, both entries (id and partner) are
\* deleted, and queue and pair table end as they would had the partner been
\* found.
C13_TeardownBestEffort ==
    (/\ lastEv.name = "removeUser"
     /\ lastEv.id \in DOMAIN pre.pairs
     /\ pre.pairs[lastEv.id] \notin sockets) =>
        LET id == lastEv.id
            partner == pre.pairs[id]
            found == RemoveUser(pre.queue, pre.pairs, sockets \cup {partner}, id)
        IN  /\ sent = << >>
            /\ raised = "none"
            /\ id \notin DOMAIN activePairs
            /\ partner \notin DOMAIN activePairs
            /\ activePairs = [k \in DOMAIN pre.pairs \ {id, partner} |-> pre.pairs[k]]
            /\ activePairs = found.pairs
            /\ waitingQueue = found.queue
            /\ found.sent = << PartnerDisconnected(partner) >>

\* removeUser ran for a paired id whose partner's socket was gone, next to
\* another pair
C13_Witness ==
    /\ lastEv.name = "removeUser"
    /\ lastEv.id \in DOMAIN pre.pairs
    /\ pre.pairs[lastEv.id] \notin sockets
    /\ DOMAIN activePairs # {}
    /\ sent = << >>

\* position of s in a sequence without repetition
Pos(q, s) == CHOOSE i \in DOMAIN q : q[i] = s

\* C15: removeUser(x) changes nothing that does not involve x.  Every
\* pair-table entry whose key and value both differ from x and from x's
\* partner is unchanged and no entry is added; every other waiting session
\* stays in the queue, in the same relative order, and none is added; and
\* only x's partner is sent anything.
C15_RemoveUserFrame ==
    lastEv.name = "removeUser" =>
        LET x == lastEv.id
            partner == MapGet(pre.pairs, x)
        IN  /\ \A k \in DOMAIN pre.pairs :
                  (k \notin {x, partner} /\ pre.pairs[k] \notin {x, partner}) =>
                      (k \in DOMAIN activePairs /\ activePairs[k] = pre.pairs[k])
            /\ DOMAIN activePairs \subseteq DOMAIN pre.pairs
            /\ Range(waitingQueue) = Range(pre.queue) \ {x}
            /\ Len(waitingQueue) = Cardinality(Range(pre.queue) \ {x})
            /\ \A s, u \in Range(pre.queue) \ {x} :
                  Pos(pre.queue, s) < Pos(pre.queue, u) =>
                      Pos(waitingQueue, s) < Pos(waitingQueue, u)
            /\ \A i \in DOMAIN sent : sent[i].to = partner /\ sent[i].to # x

\* removeUser ran for a session waiting between two others, next to a pair
C15_Witness ==
    /\ lastEv.name = "removeUser"
    /\ Len(pre.queue) = 3
    /\ pre.queue[2] = lastEv.id
    /\ waitingQueue = << pre.queue[1], pre.queue[3] >>
    /\ DOMAIN activePairs # {}
    /\ activePairs = pre.pairs

\* C14: start-search and next are equivalent.  In every reachable state and
\* for every connected session, the start-search handler and the next
\* handler yield the same queue, the same pair table and the same sequence
\* of emitted events.
C14_StartSearchEqualsNext ==
    \A id \in sockets :
        LET a == StartSearch(waitingQueue, activePairs, sockets, id)
            b == NextPartner(waitingQueue, activePairs, sockets, id)
        IN  /\ a.queue = b.queue
            /\ a.pairs = b.pairs
            /\ a.sent = b.sent
            /\ a.raised = b.raised

\* a state with a paired session and a waiting one, where either handler
\* emits partner-disconnected, searching and two paired events
C14_Witness ==
    /\ waitingQueue # << >>
    /\ \E id \in sockets \cap DOMAIN activePairs :
          Len(NextPartner(waitingQueue, activePairs, sockets, id).sent) = 4

\* indices of the `searching` events the last handler sent to s
SearchingTo(s) == {i \in DOMAIN sent : sent[i].name = "searching" /\ sent[i].to = s}

\* C16: event order for a searching session.  Each start-search or next
\* event sends its sender exactly one `searching` (and nobody else one);
\* when the handler pairs the sender, `searching` precedes its `paired`;
\* when the sender was paired before, the former partner's
\* partner-disconnected precedes both.
C16_SearchingBeforePaired ==
    lastEv.name \in SearchNames =>
        LET id == lastEv.id
        IN  /\ Cardinality(SearchingTo(id)) = 1
            /\ \A i \in DOMAIN sent : sent[i].name = "searching" => sent[i].to = id
            /\ \A i \in SearchingTo(id) : \A j \in PairedTo(id) : i < j
            /\ id \in DOMAIN pre.pairs =>
                  \E k \in DOMAIN sent :
                      /\ sent[k] = PartnerDisconnected(pre.pairs[id])
                      /\ \A i \in SearchingTo(id) : k < i
                      /\ \A j \in PairedTo(id) : k < j

\* a paired session sent next while another was waiting: all three kinds
C16_Witness ==
    /\ lastEv.name = "next"
    /\ lastEv.id \in DOMAIN pre.pairs
    /\ PairedTo(lastEv.id) # {}
    /\ SearchingTo(lastEv.id) # {}

\* C17: after every handler at most one session is waiting, and a session
\* that starts searching while another session is waiting is paired with
\* it before the handler returns.
C17_AtMostOneWaiting ==
    /\ Len(waitingQueue) <= 1
    /\ (lastEv.name \in SearchNames /\ Range(pre.queue) \ {lastEv.id} # {}) =>
          LET w == Head(SelectSeq(pre.queue, LAMBDA user : user # lastEv.id))
          IN  /\ MapGet(activePairs, lastEv.id) = w
              /\ MapGet(activePairs, w) = lastEv.id
              /\ w \notin Range(waitingQueue)
              /\ lastEv.id \notin Range(waitingQueue)

\* a session started searching while another one was waiting
C17_Witness ==
    /\ lastEv.name = "start-search"
    /\ Len(pre.queue) = 1
    /\ pre.queue[1] # lastEv.id
    /\ MapGet(activePairs, lastEv.id) = pre.queue[1]
    /\ waitingQueue = << >>

\* C18: no session is ever paired with itself and none is twice in the
\* waiting queue, also after a waiting or paired session sends start-search
\* or next again.
C18_NoSelfPairNoDuplicate ==
    /\ \A k \in DOMAIN activePairs : activePairs[k] # k
    /\ \A i, j \in DOMAIN waitingQueue : i # j => waitingQueue[i] # waitingQueue[j]
    /\ \A i \in DOMAIN sent : sent[i].name = "paired" => sent[i].to # sent[i].arg

\* a waiting session sent start-search or next again and waits, once
C18_Witness ==
    /\ lastEv.name \in SearchNames
    /\ lastEv.id \in Range(pre.queue)
    /\ waitingQueue = << lastEv.id >>

\* C19: after every handler every waiting session and every key and value
\* of the pair table is a connected session; a session whose disconnect
\* has been processed is in neither structure and is not the partner in
\* any later pairing.
C19_OnlyConnectedSessions ==
    /\ Range(waitingQueue) \subseteq sockets
    /\ DOMAIN activePairs \subseteq sockets
    /\ \A k \in DOMAIN activePairs : activePairs[k] \in sockets
    /\ \A s \in closed :
          /\ s \notin Range(waitingQueue)
          /\ s \notin DOMAIN activePairs
          /\ \A k \in DOMAIN activePairs : activePairs[k] # s
    /\ \A i \in DOMAIN sent :
          (sent[i].name = "paired" /\ lastEv.name \in SearchNames) =>
              (sent[i].to \notin closed /\ sent[i].arg \notin closed)

\* a waiting session disconnected, leaving the queue empty
C19_Witness ==
    /\ lastEv.name = "disconnect"
    /\ pre.queue = << lastEv.id >>
    /\ lastEv.id \in closed
    /\ waitingQueue = << >>

TeardownNames == {"start-search", "next", "stop-search", "disconnect"}

\* C20: notifications match pairings.  A session is sent
\* partner-disconnected only while it is paired and only by the handler of
\* its current partner, which runs removeUser; the session whose handler
\* tears the pair down is never sent it; a handler sends at most one; and
\* no session has received more partner-disconnected than `paired` events.
C20_NotificationsMatchPairings ==
    /\ \A i \in DOMAIN sent :
          sent[i].name = "partner-disconnected" =>
              /\ sent[i].to \in DOMAIN pre.pairs
              /\ pre.pairs[sent[i].to] = lastEv.id
              /\ lastEv.name \in TeardownNames
              /\ sent[i].to # lastEv.id
              /\ \A j \in DOMAIN sent :
                    sent[j].name = "partner-disconnected" => j = i
    /\ \A s \in DOMAIN tally.gone :
          CountOf(tally.gone, s) <= CountOf(tally.paired, s)

\* one session has been left by each partner it was given, another has
\* received two `paired` and no partner-disconnected
C20_Witness ==
    /\ tally.on
    /\ \E s \in DOMAIN tally.gone : tally.gone[s] = 2 /\ tally.paired[s] = 2
    /\ \E u \in DOMAIN tally.gone : tally.gone[u] = 0 /\ tally.paired[u] = 2

=============================================================================
